---- MODULE Spec2Model ----
(***************************************************************************)
(* ThreadPool (src/index.js): a fixed set of Web Workers, a free-worker    *)
(* stack and a FIFO queue of pending calls.  The pool's own fields are     *)
(* workers, freeWorkers, queue and each worker's onmessage/onerror pair;   *)
(* the host side of a worker (its incoming messages and the notifications  *)
(* it has emitted but the main thread has not yet handled) is inbox and    *)
(* outbox.  The remaining variables are history variables used only to     *)
(* state properties.                                                       *)
(***************************************************************************)
EXTENDS Integers, Sequences, FiniteSets, TLC

\* Largest whole size requested of the constructor.
MaxSize == 2
\* Number of dispatch() calls made in one behaviour.
MaxCalls == 4

VARIABLES
    phase,        \* history: "new" | "failed" | "live" | "disposed" (dispose ran once) | "redisposed"
    size,         \* the constructor's size argument
    ctorError,    \* exception thrown by the constructor, "none" if none
    workers,      \* this.workers: Set of worker ids
    freeWorkers,  \* this.freeWorkers: array of worker ids
    queue,        \* this.queue: array of pending calls (call ids)
    handler,      \* worker.onmessage/onerror: the call whose resolve/reject they close over, 0 = null
    inbox,        \* per worker: calls posted to it that it has not run yet
    outbox,       \* per worker: notifications emitted, not yet handled by the main thread
    terminated,   \* workers on which terminate() was called
    args,         \* per call: "none" (not dispatched) | "plain" | "uncloneable"
    future,       \* per call: state of the promise returned by dispatch()
    settles,      \* per call: how many times resolve/reject was invoked
    forwarded,    \* history: calls in the order worker.postMessage(args) was invoked
    handled,      \* history: number of worker notifications whose handler ran
    escaped,      \* history: handlers/methods an exception escaped from
    idleSince     \* history: per worker, when it last became idle (creation order, then completions)

poolVars == <<workers, freeWorkers, queue, handler, inbox, terminated, args,
              future, settles, forwarded>>
vars == <<phase, size, ctorError, workers, freeWorkers, queue, handler, inbox,
          outbox, terminated, args, future, settles, forwarded, handled, escaped,
          idleSince>>

----------------------------------------------------------------------------
(* Sizes: a JavaScript number is modelled in halves, plus NaN. *)

NaN == [nan |-> TRUE, twice |-> 0]
Num(t) == [nan |-> FALSE, twice |-> t]
Sizes == {NaN} \cup {Num(t) : t \in (-2)..(2 * MaxSize + 1)}
IsInteger(s) == ~s.nan /\ s.twice % 2 = 0

\* `size < 1`: false for NaN.
SizeBelowZero(s) == ~s.nan /\ s.twice < 0
SizeTooSmall(s) == ~s.nan /\ s.twice < 2

\* Array.from({ length: size }): ToLength truncates, NaN and negatives give 0.
ToLength(s) == IF s.nan \/ s.twice <= 0 THEN 0 ELSE s.twice \div 2

WorkerIds == 1..MaxSize
CallIds == 1..MaxCalls

Last(s) == s[Len(s)]
Pop(s) == SubSeq(s, 1, Len(s) - 1)
Range(s) == {s[i] : i \in 1..Len(s)}
Min(S) == CHOOSE x \in S : \A y \in S : x <= y

Pending == [st |-> "pending", val |-> "none", of |-> 0]
NoFuture == [st |-> "none", val |-> "none", of |-> 0]

\* The pool as one value, so that methods are functions of it.
\* threw: an exception is propagating out of the code run so far.
State ==
    [workers |-> workers, freeWorkers |-> freeWorkers, queue |-> queue,
     handler |-> handler, inbox |-> inbox, terminated |-> terminated,
     args |-> args, future |-> future, settles |-> settles,
     forwarded |-> forwarded, threw |-> FALSE]

Become(S) ==
    /\ workers' = S.workers
    /\ freeWorkers' = S.freeWorkers
    /\ queue' = S.queue
    /\ handler' = S.handler
    /\ inbox' = S.inbox
    /\ terminated' = S.terminated
    /\ args' = S.args
    /\ future' = S.future
    /\ settles' = S.settles
    /\ forwarded' = S.forwarded

----------------------------------------------------------------------------
(* Promise settlement: only the first resolve/reject has an effect. *)

settle(S, c, st, val, of) ==
    [S EXCEPT !.settles[c] = @ + 1,
              !.future[c] = IF @.st = "pending"
                            THEN [st |-> st, val |-> val, of |-> of] ELSE @]

resolve(S, c, of) == settle(S, c, "resolved", "result", of)
reject(S, c, val, of) == settle(S, c, "rejected", val, of)

\* worker.postMessage(args): throws DataCloneError for uncloneable args;
\* a message to a terminated worker is discarded.
postMessage(S, worker, c) ==
    IF S.args[c] = "uncloneable"
    THEN [S EXCEPT !.forwarded = Append(@, c), !.threw = TRUE]
    ELSE [S EXCEPT !.forwarded = Append(@, c),
                   !.inbox[worker] = IF worker \in S.terminated THEN @ ELSE Append(@, c)]

start_fifo(S, c) ==
    IF Len(S.freeWorkers) > 0
    THEN LET worker == Head(S.freeWorkers)
         IN postMessage([S EXCEPT !.freeWorkers = Tail(@), !.handler[worker] = c],
                        worker, c)
    ELSE [S EXCEPT !.queue = Append(@, c)]
start_no_pop(S, c) ==
    IF Len(S.freeWorkers) > 0
    THEN LET worker == Last(S.freeWorkers)
         IN postMessage([S EXCEPT !.handler[worker] = c], worker, c)
    ELSE [S EXCEPT !.queue = Append(@, c)]
start_always_queue(S, c) == [S EXCEPT !.queue = Append(@, c)]
start(S, c) ==
    IF Len(S.freeWorkers) > 0
    THEN LET worker == Last(S.freeWorkers)
         IN postMessage([S EXCEPT !.freeWorkers = Pop(@), !.handler[worker] = c],
                        worker, c)
    ELSE [S EXCEPT !.queue = Append(@, c)]

\* new Promise(executor): an exception thrown by the executor rejects the promise.
dispatch(S, c, a) ==
    LET S0 == [S EXCEPT !.args[c] = a, !.future[c] = Pending]
        S1 == start(S0, c)
    IN IF S1.threw
       THEN reject([S1 EXCEPT !.threw = FALSE], c, "DataCloneError", 0)
       ELSE S1

onFinish_lifo(S, worker) ==
    LET S1 == [S EXCEPT !.handler[worker] = 0, !.freeWorkers = Append(@, worker)]
    IN IF Len(S1.queue) > 0
       THEN start([S1 EXCEPT !.queue = Pop(@)], Last(S1.queue))
       ELSE S1
onFinish_no_pull(S, worker) ==
    [S EXCEPT !.handler[worker] = 0, !.freeWorkers = Append(@, worker)]
onFinish(S, worker) ==
    LET S1 == [S EXCEPT !.handler[worker] = 0, !.freeWorkers = Append(@, worker)]
    IN IF Len(S1.queue) > 0
       THEN start([S1 EXCEPT !.queue = Tail(@)], Head(S1.queue))
       ELSE S1

\* The closures installed by start for call c on worker; `of` is the call
\* whose outcome the event carries (e.data / e.error).
onmessage(S, worker, c, of) ==
    LET S1 == onFinish(S, worker)
    IN IF S1.threw THEN S1 ELSE resolve(S1, c, of)

onerror(S, worker, c, val, of) ==
    LET S1 == onFinish(S, worker)
    IN IF S1.threw THEN S1 ELSE reject(S1, c, val, of)

\* dispose(), first loop: idle workers leave this.workers and are terminated.
disposeFree(S) ==
    [S EXCEPT !.workers = @ \ Range(S.freeWorkers),
              !.terminated = @ \cup Range(S.freeWorkers)]

\* dispose(), queue.forEach(([, reject]) => reject(...)).
RECURSIVE rejectQueue(_, _)
rejectQueue(S, q) ==
    IF q = <<>> THEN S
    ELSE rejectQueue(reject(S, Head(q), "disposed", 0), Tail(q))

\* dispose(), workers.forEach in insertion order: terminate, then call x.onerror.
\* Calling a null onerror throws a TypeError out of dispose.
terminateBusy_silent(S, ws) == [S EXCEPT !.terminated = @ \cup ws]
RECURSIVE terminateBusy(_, _)
terminateBusy(S, ws) ==
    IF ws = {} \/ S.threw THEN S
    ELSE LET x == Min(ws)
             S1 == [S EXCEPT !.terminated = @ \cup {x}]
         IN IF S1.handler[x] = 0
            THEN [S1 EXCEPT !.threw = TRUE]
            ELSE terminateBusy(onerror(S1, x, S1.handler[x], "disposed", 0), ws \ {x})

dispose_no_clear(S) ==
    LET S1 == disposeFree(S)
        S2 == [rejectQueue(S1, S1.queue) EXCEPT !.queue = <<>>]
        S3 == terminateBusy(S2, S2.workers)
    IN IF S3.threw THEN S3
       ELSE [S3 EXCEPT !.freeWorkers = <<>>]
dispose_keep_entries(S) ==
    LET S1 == disposeFree(S)
        S2 == rejectQueue(S1, S1.queue)
        S3 == terminateBusy(S2, S2.workers)
    IN IF S3.threw THEN S3
       ELSE [S3 EXCEPT !.workers = {}, !.freeWorkers = <<>>, !.queue = <<>>]
dispose_busy_first(S) ==
    LET S1 == disposeFree(S)
        S2 == terminateBusy(S1, S1.workers)
        S3 == [rejectQueue(S2, S2.queue) EXCEPT !.queue = <<>>]
    IN IF S2.threw THEN S2
       ELSE [S3 EXCEPT !.workers = {}, !.freeWorkers = <<>>]
dispose_keep_queue(S) ==
    LET S1 == disposeFree(S)
        S2 == [S1 EXCEPT !.queue = <<>>]
        S3 == terminateBusy(S2, S2.workers)
    IN IF S3.threw THEN S3
       ELSE [S3 EXCEPT !.workers = {}, !.freeWorkers = <<>>]
dispose(S) ==
    LET S1 == disposeFree(S)
        S2 == [rejectQueue(S1, S1.queue) EXCEPT !.queue = <<>>]
        S3 == terminateBusy(S2, S2.workers)
    IN IF S3.threw THEN S3
       ELSE [S3 EXCEPT !.workers = {}, !.freeWorkers = <<>>]

getFreeWorkerCount == Len(freeWorkers)
getRunningWorkerCount_total == Cardinality(workers)
getRunningWorkerCount == Cardinality(workers) - Len(freeWorkers)
getWaitingEventCount == Len(queue)

----------------------------------------------------------------------------
Init ==
    /\ phase = "new"
    /\ size \in Sizes
    /\ ctorError = "none"
    /\ workers = {}
    /\ freeWorkers = <<>>
    /\ queue = <<>>
    /\ handler = [w \in WorkerIds |-> 0]
    /\ inbox = [w \in WorkerIds |-> <<>>]
    /\ outbox = [w \in WorkerIds |-> <<>>]
    /\ terminated = {}
    /\ args = [c \in CallIds |-> "none"]
    /\ future = [c \in CallIds |-> NoFuture]
    /\ settles = [c \in CallIds |-> 0]
    /\ forwarded = <<>>
    /\ handled = 0
    /\ escaped = {}
    /\ idleSince = [w \in WorkerIds |-> 0]

\* Phases in which a pool object exists.
Constructed == {"live", "disposed", "redisposed"}

\* new ThreadPool(fn, size)
Construct ==
    /\ phase = "new"
    /\ IF SizeTooSmall(size)
       THEN /\ phase' = "failed"
            /\ ctorError' = "RangeError"
            /\ UNCHANGED <<workers, freeWorkers, idleSince>>
       ELSE /\ phase' = "live"
            /\ ctorError' = "none"
            /\ freeWorkers' = [i \in 1..ToLength(size) |-> i]
            /\ workers' = 1..ToLength(size)
            /\ idleSince' = [w \in WorkerIds |-> IF w <= ToLength(size) THEN w ELSE 0]
    /\ UNCHANGED <<size, queue, handler, inbox, outbox, terminated, args, future,
                   settles, forwarded, handled, escaped>>

NextCall == Cardinality({c \in CallIds : args[c] # "none"}) + 1

\* pool.dispatch(...args)
Dispatch(a) ==
    /\ phase \in Constructed
    /\ NextCall <= MaxCalls
    /\ Become(dispatch(State, NextCall, a))
    /\ UNCHANGED <<phase, size, ctorError, outbox, handled, escaped, idleSince>>

\* The worker runs `postMessage(__fn(...e.data))` for its next message and
\* emits a result, or an error event if __fn throws.
WorkerRun(w, kind) ==
    /\ w \notin terminated
    /\ inbox[w] # <<>>
    /\ inbox' = [inbox EXCEPT ![w] = Tail(@)]
    /\ outbox' = [outbox EXCEPT ![w] = Append(@, [kind |-> kind, call |-> Head(inbox[w])])]
    /\ UNCHANGED <<phase, size, ctorError, workers, freeWorkers, queue, handler,
                   terminated, args, future, settles, forwarded, handled, escaped,
                   idleSince>>

\* Outside the worker contract: the bound function itself posts a message or
\* schedules a throw, so the worker emits two notifications for one call.
WorkerRunTwice(w, k1, k2) ==
    /\ w \notin terminated
    /\ inbox[w] # <<>>
    /\ inbox' = [inbox EXCEPT ![w] = Tail(@)]
    /\ outbox' = [outbox EXCEPT ![w] = @ \o <<[kind |-> k1, call |-> Head(inbox[w])],
                                              [kind |-> k2, call |-> Head(inbox[w])]>>]
    /\ UNCHANGED <<phase, size, ctorError, workers, freeWorkers, queue, handler,
                   terminated, args, future, settles, forwarded, handled, escaped,
                   idleSince>>

\* The main thread handles the worker's next notification.
Deliver(w) ==
    /\ outbox[w] # <<>>
    /\ outbox' = [outbox EXCEPT ![w] = Tail(@)]
    /\ LET ev == Head(outbox[w])
           c == handler[w]
       IN IF c = 0
          THEN UNCHANGED <<poolVars, handled, escaped, idleSince>>
          ELSE LET S1 == IF ev.kind = "message"
                         THEN onmessage(State, w, c, ev.call)
                         ELSE onerror(State, w, c, "error", ev.call)
               IN /\ Become(S1)
                  /\ handled' = handled + 1
                  /\ idleSince' = [idleSince EXCEPT ![w] = ToLength(size) + handled + 1]
                  /\ escaped' = IF S1.threw THEN escaped \cup {ev.kind} ELSE escaped
    /\ UNCHANGED <<phase, size, ctorError>>

\* pool.dispose()
Dispose ==
    /\ phase \in Constructed
    /\ LET S1 == dispose(State)
       IN /\ Become(S1)
          /\ escaped' = IF S1.threw THEN escaped \cup {"dispose"} ELSE escaped
    /\ phase' = IF phase = "live" THEN "disposed" ELSE "redisposed"
    /\ UNCHANGED <<size, ctorError, outbox, handled, idleSince>>

Next ==
    \/ Construct
    \/ \E a \in {"plain", "uncloneable"} : Dispatch(a)
    \/ \E w \in WorkerIds, k \in {"message", "error"} : WorkerRun(w, k)
    \/ \E w \in WorkerIds : Deliver(w)
    \/ Dispose

Spec == Init /\ [][Next]_vars

\* The pool driven by workers that may break the one-notification contract.
DupNext ==
    \/ Next
    \/ \E w \in WorkerIds, k1, k2 \in {"message", "error"} : WorkerRunTwice(w, k1, k2)

DupSpec == Init /\ [][DupNext]_vars

\* Every worker that was sent a call eventually reports, and every
\* notification is eventually handled by the main thread's event loop.
FairSpec ==
    /\ Spec
    /\ \A w \in WorkerIds : WF_vars(\E k \in {"message", "error"} : WorkerRun(w, k))
    /\ \A w \in WorkerIds : WF_vars(Deliver(w))

TypeOK ==
    /\ phase \in {"new", "failed"} \cup Constructed
    /\ workers \subseteq WorkerIds
    /\ Range(freeWorkers) \subseteq WorkerIds
    /\ Range(queue) \subseteq CallIds
    /\ handled \in 0..(2 * MaxCalls)

----------------------------------------------------------------------------
(* Vocabulary of the properties. *)

Dispatched == {c \in CallIds : args[c] # "none"}
Settled(c) == future[c].st \in {"resolved", "rejected"}
RejectedWith(f, val) == f.st = "rejected" /\ f.val = val

\* Worker w holds a call in flight: its handlers belong to a call that was
\* posted to it and whose notification has not been handled yet.
InFlight(w) ==
    /\ handler[w] # 0
    /\ \/ handler[w] \in Range(inbox[w])
       \/ \E i \in 1..Len(outbox[w]) : outbox[w][i].call = handler[w]

\* The requested size as a whole number (integer sizes only).
Whole(s) == s.twice \div 2

\* A notification handler (onmessage/onerror) ran in this step.
Completion == handled' = handled + 1

Ordered(s) == \A i, j \in 1..Len(s) : i < j => s[i] < s[j]

----------------------------------------------------------------------------
\* C1: calls are handed to worker.postMessage in dispatch order (call ids
\* are dispatch order): the sequence of forwarded calls is strictly
\* increasing.  A completion that finds the queue non-empty removes exactly
\* its oldest entry and forwards it in that same step, to a worker whose
\* inbox then holds it when its arguments can be cloned; no other step
\* takes a call out of the queue except dispose.
C1_DispatchOrder ==
    /\ [](Ordered(forwarded))
    /\ [][(Completion /\ queue # <<>>) =>
            /\ queue' = Tail(queue)
            /\ forwarded' = Append(forwarded, Head(queue))
            /\ args[Head(queue)] = "plain" =>
                 \E w \in workers : /\ handler'[w] = Head(queue)
                                    /\ inbox'[w] = Append(inbox[w], Head(queue))]_vars

\* With two workers, a third call was queued behind a fourth-to-be and was
\* forwarded after a completion while a later call still waits.
C1_Witness ==
    /\ phase = "live"
    /\ Cardinality(workers) = 2
    /\ handled >= 1
    /\ Len(forwarded) = 3
    /\ queue # <<>>

\* C2: in a live pool of integer size N, free workers plus workers holding
\* an in-flight call number N, and the gauges add up to N.
C2_FreePlusInFlight ==
    (phase = "live" /\ IsInteger(size)) =>
        /\ Len(freeWorkers) + Cardinality({w \in workers : InFlight(w)}) = Whole(size)
        /\ getFreeWorkerCount + getRunningWorkerCount = Whole(size)

\* C3: between controller events the queue is non-empty only if no worker
\* is free.
C3_NoWaitWhileIdle == queue # <<>> => freeWorkers = <<>>

\* A completion has been handled and calls still wait in the queue.
C3_Witness == phase = "live" /\ handled >= 1 /\ Len(queue) >= 1 /\ Len(forwarded) >= 3

\* C4: one dispose() rejects every queued call and every in-flight call with
\* the disposed-pool error, and leaves no workers, no free workers and an
\* empty queue, so all three gauges read 0.
C4_DisposeRejectsAll ==
    [][Dispose =>
         /\ \A c \in CallIds :
              (\/ c \in Range(queue)
               \/ \E w \in workers : InFlight(w) /\ handler[w] = c)
              => (~Settled(c) /\ RejectedWith(future'[c], "disposed"))
         /\ workers' = {}
         /\ Len(freeWorkers') = 0
         /\ Cardinality(workers') - Len(freeWorkers') = 0
         /\ Len(queue') = 0]_vars

\* The single dispose() so far rejected three calls: two in flight, one queued.
C4_Witness ==
    /\ phase = "disposed"
    /\ Cardinality({c \in CallIds : RejectedWith(future[c], "disposed")}) = 3
    /\ Len(forwarded) = 2

\* C5: when a worker's error notification is handled, the call bound to that
\* worker is rejected with the error, no other future changes, and the
\* worker is free again or already runs the oldest queued call.
C5_ErrorRejectsOnlyThatCall ==
    [][\A w \in WorkerIds :
         (Deliver(w) /\ handler[w] # 0 /\ Head(outbox[w]).kind = "error") =>
            /\ RejectedWith(future'[handler[w]], "error")
            /\ \A c \in CallIds \ {handler[w]} : future'[c] = future[c]
            /\ \/ w \in Range(freeWorkers')
               \/ queue # <<>> /\ handler'[w] = Head(queue)]_vars

\* C6: a call whose dispatch failed on cloning its arguments does not keep a
\* worker: no worker of the live pool is left bound to it.
C6_CloneFailureReleasesWorker ==
    phase = "live" =>
        \A c \in CallIds :
            RejectedWith(future[c], "DataCloneError") =>
                \A w \in workers : handler[w] # c

\* C7: every dispatched call's future is eventually settled.
C7_EventuallySettled ==
    \A c \in CallIds : [](future[c].st = "pending" => <>Settled(c))

\* C8: with k calls dispatched on a live pool of integer size N and no
\* notification handled yet, running = min(k, N), free = N - min(k, N) and
\* queued = max(0, k - N).
C8_GaugesBeforeCompletion ==
    (phase = "live" /\ IsInteger(size) /\ handled = 0) =>
        LET N == Whole(size)
            k == Cardinality(Dispatched)
            m == IF k < N THEN k ELSE N
        IN /\ N >= 1
           /\ getRunningWorkerCount = m
           /\ getFreeWorkerCount = N - m
           /\ getWaitingEventCount = (IF k > N THEN k - N ELSE 0)

\* N + 1 calls dispatched on a pool of two workers, none completed.
C8_Witness ==
    /\ phase = "live" /\ size = Num(4) /\ handled = 0
    /\ Cardinality(Dispatched) = 3
    /\ getWaitingEventCount = 1

\* C9: constructing with size 0 or a negative integer throws RangeError and
\* leaves no workers, no free workers and no pool to dispatch on.
C9_NonPositiveSizeRejected ==
    (phase # "new" /\ IsInteger(size) /\ size.twice <= 0) =>
        /\ phase = "failed"
        /\ ctorError = "RangeError"
        /\ workers = {} /\ freeWorkers = <<>> /\ queue = <<>>
        /\ Dispatched = {}

\* The constructor was called with size 0 and threw.
C9_Witness == phase = "failed" /\ size = Num(0) /\ ctorError = "RangeError"

\* C10: constructing with a fractional or not-a-number size throws
\* RangeError, and a pool only exists with exactly the requested whole
\* number of workers.
C10_NonIntegerSizeRejected ==
    /\ (phase # "new" /\ ~IsInteger(size)) => (phase = "failed" /\ ctorError = "RangeError")
    /\ phase = "live" =>
         (IsInteger(size) /\ Cardinality(workers) = Whole(size))

----------------------------------------------------------------------------
Disposed == phase \in {"disposed", "redisposed"}
NoDup(s) == \A i, j \in 1..Len(s) : i # j => s[i] # s[j]

\* C11: a settled future never changes again, also when a worker emits two
\* notifications for one call or a notification is still pending at
\* dispose(); every error event a worker's onerror receives settles exactly
\* one future, and dispose() settles one future per queued call and per
\* busy worker.
C11_SettledOnce ==
    /\ [][\A c \in CallIds : Settled(c) => future'[c] = future[c]]_vars
    /\ [][\A w \in WorkerIds :
            (Deliver(w) /\ handler[w] # 0 /\ Head(outbox[w]).kind = "error") =>
                Cardinality({c \in CallIds : future'[c] # future[c]}) = 1]_vars
    /\ [][Dispose =>
            Cardinality({c \in CallIds : future'[c] # future[c]})
                = Len(queue) + Cardinality(workers \ Range(freeWorkers))]_vars

\* C12: a dispatch() on a disposed pool is rejected at once with the
\* disposed-pool error and does not enter the queue.
C12_DispatchAfterDisposeRejected ==
    [][\A a \in {"plain", "uncloneable"} :
         (Dispatch(a) /\ Disposed) =>
            /\ RejectedWith(future'[NextCall], "disposed")
            /\ queue' = queue]_vars

\* C13: from dispose() on no future becomes resolved, also when a result
\* notification produced before dispose() is delivered after it, and every
\* call in flight at dispose() is rejected with the disposed-pool error.
C13_TerminationWins ==
    /\ [][(Dispose \/ Disposed) =>
            \A c \in CallIds : future'[c].st = "resolved" => future[c].st = "resolved"]_vars
    /\ [][Dispose =>
            \A w \in workers :
                InFlight(w) => RejectedWith(future'[handler[w]], "disposed")]_vars

\* No handler ever ran, the pool was disposed once, and the notification of
\* a forwarded call has since been delivered: it left the call rejected.
C13_Witness ==
    /\ phase = "disposed"
    /\ handled = 0
    /\ \E c \in Range(forwarded) :
         /\ args[c] = "plain"
         /\ RejectedWith(future[c], "disposed")
         /\ \A w \in WorkerIds :
              /\ c \notin Range(inbox[w])
              /\ \A i \in 1..Len(outbox[w]) : outbox[w][i].call # c

\* C14: dispose() on an already disposed pool on which nothing was
\* dispatched since changes no future, no field of the pool and throws
\* nothing; the three gauges stay 0.
C14_DisposeIdempotent ==
    [][(Dispose /\ Disposed /\ queue = <<>>) =>
         /\ UNCHANGED <<poolVars, escaped>>
         /\ workers' = {} /\ freeWorkers' = <<>> /\ queue' = <<>>]_vars

\* dispose() ran at least twice on a pool all of whose calls were dispatched
\* while it was live.
C14_Witness ==
    /\ phase = "redisposed"
    /\ Dispatched # {}
    /\ Dispatched \subseteq Range(forwarded)
    /\ \E c \in CallIds : RejectedWith(future[c], "disposed")

\* C15: a dispatch that finds free workers takes the one that became idle
\* most recently (creation order on a fresh pool) and leaves the others free.
C15_LifoWorkerReuse ==
    [][\A a \in {"plain", "uncloneable"} :
         (Dispatch(a) /\ freeWorkers # <<>>) =>
            \E w \in Range(freeWorkers) :
                /\ handler'[w] = NextCall
                /\ \A v \in Range(freeWorkers) : idleSince[v] <= idleSince[w]
                /\ Range(freeWorkers') = Range(freeWorkers) \ {w}
                /\ Len(freeWorkers') = Len(freeWorkers) - 1]_vars

\* Worker 2 was freed, then worker 1; the next dispatch (call 3) runs on
\* worker 1 and worker 2 stays free.
C15_Witness ==
    /\ phase = "live"
    /\ handled = 2
    /\ idleSince[2] < idleSince[1]
    /\ handler[1] = 3
    /\ freeWorkers = <<2>>

\* C16: a completion that finds the queue non-empty removes its head and
\* binds it to the worker that completed, in the same step (posting it to
\* that worker when its arguments can be cloned); the queue is shorter by
\* one, freeWorkers is unchanged and no other worker's handlers or messages
\* change.
C16_CompletionReassignsSameWorker ==
    [][\A w \in WorkerIds :
         (Deliver(w) /\ handler[w] # 0 /\ queue # <<>>) =>
            /\ queue' = Tail(queue)
            /\ handler'[w] = Head(queue)
            /\ args[Head(queue)] = "plain" => inbox'[w] = Append(inbox[w], Head(queue))
            /\ freeWorkers' = freeWorkers
            /\ \A v \in WorkerIds \ {w} :
                 handler'[v] = handler[v] /\ inbox'[v] = inbox[v] /\ outbox'[v] = outbox[v]]_vars

\* Two workers: one completed and took over the head of the queue while the
\* other still runs its first call and another call still waits.
C16_Witness ==
    /\ phase = "live"
    /\ Cardinality(workers) = 2
    /\ handled = 1
    /\ Len(queue) = 1
    /\ \E w \in workers : handler[w] = 3 /\ inbox[w] = <<3>>

\* C17: a handled notification always settles the call bound to the worker
\* and lets no exception escape; a queued call whose arguments cannot be
\* cloned is rejected with that error.
C17_CompletionAlwaysSettles ==
    [][\A w \in WorkerIds :
         (Deliver(w) /\ handler[w] # 0) =>
            /\ future'[handler[w]].st \in {"resolved", "rejected"}
            /\ escaped' = escaped
            /\ (queue # <<>> /\ args[Head(queue)] = "uncloneable") =>
                 RejectedWith(future'[Head(queue)], "DataCloneError")]_vars

\* C18: a worker holds at most one call (posted or notified), freeWorkers
\* has no duplicates and its workers hold nothing and have no handlers, and
\* a message is posted only to a worker that holds nothing and is either
\* free or has just had its notification handled.
C18_OneCallPerWorker ==
    /\ [](/\ \A w \in WorkerIds : Len(inbox[w]) + Len(outbox[w]) <= 1
          /\ NoDup(freeWorkers)
          /\ \A w \in Range(freeWorkers) :
               handler[w] = 0 /\ inbox[w] = <<>> /\ outbox[w] = <<>>)
    /\ [][\A w \in WorkerIds :
            Len(inbox'[w]) > Len(inbox[w]) =>
               /\ inbox[w] = <<>>
               /\ \/ w \in Range(freeWorkers) /\ outbox[w] = <<>>
                  \/ Deliver(w) /\ Len(outbox[w]) = 1]_vars

\* The single worker runs its second call after its first was handled.
C18_Witness ==
    /\ phase = "live"
    /\ size = Num(2)
    /\ handled >= 1
    /\ InFlight(1)

\* C19: a call enters the queue only at its dispatch, waits there pending
\* and unforwarded, and leaves it in exactly one of two ways: it is handed
\* to a worker (the next entry of forwarded), or a dispose() rejects it
\* with the disposed-pool error without forwarding it.  No call is
\* forwarded twice.
C19_QueuedCallConsumedOnce ==
    /\ [](/\ NoDup(queue)
          /\ NoDup(forwarded)
          /\ \A c \in Range(queue) : future[c] = Pending /\ c \notin Range(forwarded))
    /\ [][\A c \in CallIds :
            /\ (c \in Range(queue') /\ c \notin Range(queue)) => args[c] = "none"
            /\ (c \in Range(queue) /\ c \notin Range(queue')) =>
                 \/ /\ forwarded' = Append(forwarded, c)
                    /\ ~Dispose
                    /\ future'[c] = Pending
                 \/ /\ forwarded' = forwarded
                    /\ Dispose
                    /\ RejectedWith(future'[c], "disposed")]_vars

\* One worker: call 2 left the queue to the worker, call 3 left it by the
\* only dispose().
C19_Witness ==
    /\ phase = "disposed"
    /\ size = Num(2)
    /\ forwarded = <<1, 2>>
    /\ handled = 1
    /\ RejectedWith(future[3], "disposed")

\* C20: dispose() and every step after it forward no call and post nothing
\* to any worker, and a terminated worker is neither free nor bound to a
\* call.
C20_NoWorkForTerminated ==
    /\ [][(Dispose \/ Disposed) => (forwarded' = forwarded /\ inbox' = inbox)]_vars
    /\ [](\A w \in terminated : handler[w] = 0 /\ w \notin Range(freeWorkers))

\* One worker was busy and a call queued at the only dispose(); a call
\* dispatched afterwards waits unforwarded.
C20_Witness ==
    /\ phase = "disposed"
    /\ size = Num(2)
    /\ Len(forwarded) = 1
    /\ Cardinality({c \in CallIds : RejectedWith(future[c], "disposed")}) = 2
    /\ Len(queue) = 1

====
